---- MODULE Spec2Model ----
(***************************************************************************)
(* Model of the WalletConnect v2 client core:                              *)
(*   - Subscription store (packages/client/src/controllers/subscription.ts *)
(*     lines 21-298) with its storage persistence, TTL timers and the      *)
(*     restore/enable protocol;                                            *)
(*   - Relayer subscription bookkeeping (same file, lines 327-542).        *)
(*                                                                         *)
(* Asynchronous methods are split at their awaits: a call creates a task,  *)
(* every later action runs one task from one await to the next.  Time is   *)
(* a discrete clock `now`; one clock unit stands for 2.5 s, so that the    *)
(* beat interval (5 s) is two units.  Timers fire when due and I/O ends    *)
(* before the clock advances.                                              *)
(***************************************************************************)
EXTENDS Integers, Sequences, FiniteSets, Bags, TLC

\* ---------------------------------------------------------------- bounds
MaxTime == 4          \* the clock runs from 1 to MaxTime
MaxTasks == 2         \* calls of the public API in progress at once
MaxWrites == 1        \* storage writes in flight when a new call is accepted
MaxCalls == 2         \* calls of the public API in one run
MaxGated == 1         \* calls accepted while restore awaits its enable
MaxIds == 3           \* subscription ids the relay server hands out
MaxDisconnects == 2   \* transport disconnects in one run

\* ------------------------------------------------------ program constants
CLIENT_BEAT_INTERVAL == 2       \* FIVE_SECONDS * 1000 ms, in clock units
SUBSCRIPTION_DEFAULT_TTL == 3   \* default time to live, in clock units

\* ------------------------------------------------------------ input sets
Topics == {"t1", "t2"}
\* A Sequence is an object; two fields are enough to tell a shallow merge
\* from a replacement.
SeqA == [a |-> 1, b |-> 0]
SeqB == [a |-> 2, b |-> 0]
\* The calls of set: opts.expiry is 0 (a missing or falsy expiry) or
\* now + offset.
SetInputs ==
  { [topic |-> "t1", sequence |-> SeqA, relay |-> "waku", offset |-> 0],
    [topic |-> "t1", sequence |-> SeqA, relay |-> "bridge", offset |-> 1],
    [topic |-> "t2", sequence |-> SeqB, relay |-> "bridge", offset |-> 2] }
UpdateInputs == { [topic |-> "t1", update |-> [b |-> 1]] }
GetInputs == {"t1"}
DeleteInputs == { [topic |-> t, reason |-> "USER"] : t \in Topics }
EXPIRED == "EXPIRED"

NoSequence == [a |-> 0, b |-> 0]
NoSub == [topic |-> "", sequence |-> NoSequence, relay |-> "", expiry |-> 0]
NoUpdate == [b |-> 0]

VARIABLES
  now,            \* Date.now()
  phase,          \* "constructed" | "restoring" | "restored" | "running"
  subscriptions,  \* Subscription.subscriptions: Map in insertion order
  timeout,        \* Subscription.timeout: topic -> timer handle
  timers,         \* the runtime's armed timers (a bag of handles)
  cached,         \* Subscription.cached
  tasks,          \* calls of set/get/update/delete in progress
  storage,        \* what the key-value storage holds under the storage key
  writes,         \* storage.setItem calls in flight, oldest first
  nextBeat,       \* time of the next client beat, 0 when no interval is set
  calls,          \* number of calls of the public API so far
  turn,           \* what started the calls in progress: "api" | "callback"
  emitted,        \* events emitted by the latest step
  thrown,         \* errors the latest step ended a call with
  preStop,        \* the entries held when the process was last stopped
  loadedFresh,    \* restore loaded only unexpired entries, none touched since
  relayed,        \* Relayer.subscriptions: topic -> ids
  listeners,      \* ids with a listener on Relayer.events
  requests,       \* relay requests awaiting their reply
  nextId,         \* next subscription id the relay server hands out
  pending,        \* the Relayer.unsubscribe call in progress
  connected,      \* provider.connection.connected
  connects,       \* provider.connect() calls made on disconnect
  relayEmitted,   \* events emitted on Relayer.events by the latest step
  keychain,       \* client.crypto: topic -> key, 0 when the topic has none
  decoding,       \* listeners of subscription ids awaiting client.crypto
  payloads,       \* relayer_payload events emitted so far, oldest first
  wire,           \* what was handed to the transport so far, oldest first
  publishing,     \* calls of Relayer.publish awaiting client.crypto
  inbound,        \* payloads the transport delivered so far, oldest first
  published,      \* calls of Relayer.publish made so far, oldest first
  client,         \* Client: its controller flag and its app metadata
  results,        \* calls of connect, pair and approve made so far, oldest first
  merging,        \* Pairing.mergeUpgrade: its inputs and what it returned
  stores,         \* the four stores on the client's event bus, see NoStores
  attempts        \* calls of Relayer.publish, subscribe, unsubscribe and how they ended

storeVars == <<now, phase, subscriptions, timeout, timers, cached, tasks,
               storage, writes, nextBeat, calls, turn, emitted, thrown, preStop,
               loadedFresh>>
wireVars == <<connected, connects, relayEmitted>>
apiVars == <<client, results, merging, stores, attempts>>
msgVars == <<keychain, decoding, payloads, wire, publishing, inbound, published, apiVars>>
relayVars == <<relayed, listeners, requests, nextId, pending, wireVars, msgVars>>
vars == <<storeVars, relayVars>>

\* ------------------------------------------------------------- Map helpers
has(subs, topic) == \E i \in DOMAIN subs : subs[i].topic = topic

IndexOf(subs, topic) == CHOOSE i \in DOMAIN subs : subs[i].topic = topic

mapGet(subs, topic) == subs[IndexOf(subs, topic)]

mapSet(subs, topic, entry) ==
  IF has(subs, topic)
    THEN [subs EXCEPT ![IndexOf(subs, topic)] = entry]
    ELSE Append(subs, entry)

mapDelete(subs, topic) == SelectSeq(subs, LAMBDA e : e.topic # topic)

\* { ...sequence, ...update }
merge(sequence, update) ==
  [f \in DOMAIN sequence \cup DOMAIN update |->
     IF f \in DOMAIN update THEN update[f] ELSE sequence[f]]

Remove(s, i) == [j \in 1..(Len(s) - 1) |-> IF j < i THEN s[j] ELSE s[j + 1]]

\* ---------------------------------------------------- the store's methods
\* The methods below act on the mutable part of the store, passed as a
\* record st = [subscriptions, timeout, timers, tasks, emitted, thrown,
\* writes, cached] and returned changed.

Store == [subscriptions |-> subscriptions, timeout |-> timeout,
          timers |-> timers, tasks |-> tasks, emitted |-> <<>>,
          thrown |-> <<>>, writes |-> writes, cached |-> cached]

\* isEnabled without its test of `cached`
isEnabledAlways(c) == TRUE

\* isEnabled resolves at once when nothing is cached, else on `enabled`.
isEnabled(c) == Len(c) = 0

Task(op, topic, arg, opts, reason, c) ==
  [op |-> op, topic |-> topic, arg |-> arg, relay |-> opts.relay,
   expiry |-> opts.expiry, reason |-> reason, pc |-> "start",
   blocked |-> ~isEnabled(c), gated |-> Len(c) # 0, sub |-> NoSub]

NoOpts == [relay |-> "", expiry |-> 0]

call(st, task) == [st EXCEPT !.tasks = Append(@, task)]

\* A timer handle is the timer's record [topic, due]; a handle whose timer has
\* fired or was cleared is kept in the map as Dead(topic): clearing it again
\* does nothing.
Dead(topic) == [topic |-> topic, due |-> 0]

clearTimeout(st, handle) ==
  [st EXCEPT !.timers = @ (-) SetToBag({handle}),
             !.timeout = [t \in DOMAIN @ |-> IF @[t] = handle THEN Dead(t) ELSE @[t]]]

deleteTimeout(st, topic) ==
  IF topic \notin DOMAIN st.timeout THEN st
  ELSE clearTimeout(st, st.timeout[topic])

onTimeout(st, topic) ==
  call(deleteTimeout(st, topic),
       Task("delete", topic, NoSequence, NoOpts, EXPIRED, st.cached))

\* the runtime takes a due timer off its list and runs the callback
fire(st, handle) ==
  onTimeout([st EXCEPT !.timers = @ (-) SetToBag({handle}),
                       !.timeout = [t \in DOMAIN @ |->
                                      IF @[t] = handle /\ CopiesIn(handle, st.timers) = 1
                                        THEN Dead(t) ELSE @[t]]],
            handle.topic)

\* setTimeout without its test of this.timeout.has(topic)
setTimeoutRearm(st, topic, expiry) ==
  LET ttl == expiry - now IN
  IF ttl <= 0 THEN onTimeout(st, topic)
  ELSE IF ttl > CLIENT_BEAT_INTERVAL THEN st
  ELSE LET handle == [topic |-> topic, due |-> expiry] IN
       [st EXCEPT !.timers = @ (+) SetToBag({handle}),
                  !.timeout = (topic :> handle) @@ @]

setTimeout(st, topic, expiry) ==
  IF topic \in DOMAIN st.timeout THEN st
  ELSE LET ttl == expiry - now IN
       IF ttl <= 0 THEN onTimeout(st, topic)
       ELSE IF ttl > CLIENT_BEAT_INTERVAL THEN st
       ELSE LET handle == [topic |-> topic, due |-> expiry] IN
            [st EXCEPT !.timers = @ (+) SetToBag({handle}),
                       !.timeout = (topic :> handle) @@ @]

\* subscribeAndSet that always takes the default time to live
subscribeAndSetDefault(st, topic, sequence, opts) ==
  LET expiry == now + SUBSCRIPTION_DEFAULT_TTL
      entry == [topic |-> topic, sequence |-> sequence,
                relay |-> opts.relay, expiry |-> expiry]
  IN setTimeout([st EXCEPT !.subscriptions = mapSet(@, topic, entry)],
                topic, expiry)

subscribeAndSet(st, topic, sequence, opts) ==
  LET expiry == IF opts.expiry # 0 THEN opts.expiry
                ELSE now + SUBSCRIPTION_DEFAULT_TTL
      entry == [topic |-> topic, sequence |-> sequence,
                relay |-> opts.relay, expiry |-> expiry]
  IN setTimeout([st EXCEPT !.subscriptions = mapSet(@, topic, entry)],
                topic, expiry)

RECURSIVE forEachSetTimeout(_, _)
forEachSetTimeout(st, entries) ==
  IF entries = <<>> THEN st
  ELSE forEachSetTimeout(setTimeout(st, Head(entries).topic, Head(entries).expiry),
                         Tail(entries))

checkSubscriptions(st) == forEachSetTimeout(st, st.subscriptions)

\* persist: storage.setItem(key, this.values), the values taken at the call.
persist(st) == [st EXCEPT !.writes = Append(@, st.subscriptions)]

Event(type, topic, sequence, update, reason) ==
  [type |-> type, topic |-> topic, sequence |-> sequence,
   update |-> update, reason |-> reason]

\* the store without its listener of `deleted`
emitNoPersistOnDeleted(st, event) ==
  IF event.type = "deleted" THEN [st EXCEPT !.emitted = Append(@, event)]
  ELSE persist([st EXCEPT !.emitted = Append(@, event)])

\* client.events.emit of created, updated or deleted: the store's listener
\* persists (the Relayer's listeners are the actions of SpecRelayer).
emit(st, event) == persist([st EXCEPT !.emitted = Append(@, event)])

\* restore that hands subscribeAndSet the relay only
RECURSIVE restoreAllNoExpiry(_, _)
restoreAllNoExpiry(st, entries) ==
  IF entries = <<>> THEN st
  ELSE LET e == Head(entries) IN
       restoreAllNoExpiry(subscribeAndSet(st, e.topic, e.sequence,
                                          [relay |-> e.relay, expiry |-> 0]),
                          Tail(entries))

RECURSIVE restoreAll(_, _)
restoreAll(st, entries) ==
  IF entries = <<>> THEN st
  ELSE LET e == Head(entries) IN
       restoreAll(subscribeAndSet(st, e.topic, e.sequence,
                                  [relay |-> e.relay, expiry |-> e.expiry]),
                  Tail(entries))

\* enable that empties `cached` but does not emit `enabled`
enableSilent(st) == [st EXCEPT !.cached = <<>>]

enable(st) ==
  [st EXCEPT !.cached = <<>>,
             !.tasks = [i \in DOMAIN @ |-> [@[i] EXCEPT !.blocked = FALSE]]]

Apply(st) ==
  /\ subscriptions' = st.subscriptions
  /\ timeout' = st.timeout
  /\ timers' = st.timers
  /\ tasks' = st.tasks
  /\ emitted' = st.emitted
  /\ thrown' = st.thrown
  /\ writes' = st.writes
  /\ cached' = st.cached

Touches(st) == st.subscriptions # subscriptions

\* -------------------------------------------------------------- lifecycle
EmptyMap == [t \in {} |-> NoSub]

StoreInit ==
  /\ now = 1
  /\ phase = "constructed"
  /\ subscriptions = <<>>
  /\ timeout = EmptyMap
  /\ timers = EmptyBag
  /\ cached = <<>>
  /\ tasks = <<>>
  /\ storage = [present |-> FALSE, value |-> <<>>]
  /\ writes = <<>>
  /\ nextBeat = 0
  /\ calls = 0
  /\ turn = "api"
  /\ emitted = <<>>
  /\ thrown = <<>>
  /\ preStop = <<>>
  /\ loadedFresh = TRUE

\* restore without its test of the table's size
willOverrideNever(subs) == FALSE

\* if (this.subscriptions.size) (line 209)
willOverride(subs) == Len(subs) # 0

\* restore up to its first await after loading (lines 202-226); getItem
\* answers with what the storage holds.
RestoreStart ==
  /\ phase = "constructed"
  /\ IF ~storage.present \/ Len(storage.value) = 0
       THEN /\ phase' = "restored"
            /\ Apply(Store)
            /\ loadedFresh' = (subscriptions = <<>>)
     ELSE IF willOverride(subscriptions)
       THEN \* RESTORE_WILL_OVERRIDE is thrown, caught and logged
            /\ phase' = "restored"
            /\ Apply(Store)
            /\ loadedFresh' = FALSE
     ELSE /\ phase' = "restoring"
          /\ Apply(restoreAll([Store EXCEPT !.cached = storage.value],
                              storage.value))
          /\ loadedFresh' = \A i \in DOMAIN storage.value :
                               storage.value[i].expiry > now
  /\ turn' = "api"
  /\ UNCHANGED <<now, storage, nextBeat, preStop, calls, relayVars>>

\* restore after Promise.all: enable (lines 227, 255-258)
RestoreEnable ==
  /\ phase = "restoring"
  /\ phase' = "restored"
  /\ Apply(enable(Store))
  /\ UNCHANGED <<now, storage, nextBeat, preStop, loadedFresh, calls, turn, relayVars>>

\* Client.setBeatInterval, the last step of Client.initialize; the awaits
\* of crypto.init and relayer.init before it let every resumed call finish.
SetBeatInterval ==
  /\ phase = "restored"
  /\ tasks = <<>>
  /\ phase' = "running"
  /\ nextBeat' = now + CLIENT_BEAT_INTERVAL
  /\ emitted' = <<>>
  /\ thrown' = <<>>
  /\ UNCHANGED <<now, subscriptions, timeout, timers, cached, tasks, storage,
                 writes, preStop, loadedFresh, calls, turn, relayVars>>

\* ------------------------------------------------------------------ calls
\* A call is accepted while restore awaits (the case of the restore/enable
\* protocol) and once the client runs; timers and beats that are due run
\* first, and the delete started by a timer or beat callback runs to its end
\* before anything else is called.
NothingDue ==
  /\ \A h \in BagToSet(timers) : h.due > now
  /\ phase = "running" => nextBeat > now

CanCall ==
  /\ phase \in {"restoring", "running"}
  /\ NothingDue
  /\ tasks # <<>> => turn = "api"
  /\ calls < MaxCalls
  /\ phase = "restoring" =>
       Cardinality({i \in DOMAIN tasks : tasks[i].reason # EXPIRED}) < MaxGated
  /\ Len(tasks) < MaxTasks
  /\ Len(writes) < MaxWrites

Called(task) ==
  /\ CanCall
  /\ Apply(call(Store, task))
  /\ calls' = calls + 1
  /\ turn' = "api"
  /\ UNCHANGED <<now, phase, storage, nextBeat, preStop, loadedFresh, relayVars>>

SetCall ==
  \E in \in SetInputs :
    Called(Task("set", in.topic, in.sequence,
                [relay |-> in.relay,
                 expiry |-> IF in.offset = 0 THEN 0 ELSE now + in.offset],
                "", cached))

GetCall ==
  \E topic \in GetInputs :
    Called(Task("get", topic, NoSequence, NoOpts, "", cached))

UpdateCall ==
  \E in \in UpdateInputs :
    Called(Task("update", in.topic, in.update, NoOpts, "", cached))

DeleteCall ==
  \E in \in DeleteInputs :
    Called(Task("delete", in.topic, NoSequence, NoOpts, in.reason, cached))

\* ------------------------------------------------------------- task steps
Runs(i, op, pc) ==
  /\ i \in DOMAIN tasks
  /\ tasks[i].op = op
  /\ tasks[i].pc = pc
  /\ ~tasks[i].blocked

Finish(st, i) == [st EXCEPT !.tasks = Remove(@, i)]

Goto(st, i, pc) == [st EXCEPT !.tasks[i].pc = pc]

\* what one step of a call does to the store
StepStore(st) ==
  /\ Apply(st)
  /\ loadedFresh' = (loadedFresh /\ ~Touches(st))
  /\ turn' = IF st.tasks = <<>> THEN "api" ELSE turn
  /\ UNCHANGED <<now, phase, storage, nextBeat, preStop, calls>>

Step(st) == StepStore(st) /\ UNCHANGED relayVars

\* set after `await this.isEnabled()` (lines 54-59)
SetRun(i) ==
  /\ Runs(i, "set", "start")
  /\ LET t == tasks[i] IN
     IF has(subscriptions, t.topic)
       THEN \* this.update(topic, sequence), not awaited: set returns
            Step(call(Finish(Store, i),
                      Task("update", t.topic, t.arg, NoOpts, "", cached)))
       ELSE Step(Goto(subscribeAndSet(Store, t.topic, t.arg,
                                      [relay |-> t.relay, expiry |-> t.expiry]),
                      i, "emit"))

\* set after `await this.subscribeAndSet(...)` (lines 60-64)
SetEmit(i) ==
  /\ Runs(i, "set", "emit")
  /\ LET t == tasks[i] IN
     Step(Finish(emit(Store, Event("created", t.topic, t.arg, NoUpdate, "")), i))

\* getSubscription that returns without an error when the topic is absent
noMatchingTopicSilent(st) == st

\* throw new Error(ERROR.NO_MATCHING_TOPIC.format(...)) (lines 138-145)
noMatchingTopic(st) == [st EXCEPT !.thrown = Append(@, "NO_MATCHING_TOPIC")]

\* get, update, delete after `await this.isEnabled()`: getSubscription is
\* called, awaits isEnabled again and looks the topic up (lines 72, 80, 100,
\* 135-147)
GetSubscriptionRun(i) ==
  /\ \E op \in {"get", "update", "delete"} :
       Runs(i, op, "start") \/ Runs(i, op, "lookup")
  /\ IF tasks[i].pc = "start" /\ ~isEnabled(cached)
       THEN Step([Store EXCEPT !.tasks[i].pc = "lookup",
                               !.tasks[i].blocked = TRUE])
     ELSE IF ~has(subscriptions, tasks[i].topic)
       THEN \* NO_MATCHING_TOPIC is thrown: the call fails
            Step(Finish(noMatchingTopic(Store), i))
     ELSE IF tasks[i].op = "get"
       THEN Step(Finish(Store, i))
     ELSE Step([Store EXCEPT !.tasks[i].pc = "apply",
                             !.tasks[i].sub = mapGet(subscriptions, tasks[i].topic)])

\* update after `await this.getSubscription(topic)` (lines 81-92)
UpdateApply(i) ==
  /\ Runs(i, "update", "apply")
  /\ LET t == tasks[i]
         sequence == merge(t.sub.sequence, t.arg)
         entry == [t.sub EXCEPT !.topic = t.topic, !.sequence = sequence]
     IN Step(Finish(emit([Store EXCEPT !.subscriptions = mapSet(@, t.topic, entry)],
                         Event("updated", t.topic, sequence, t.arg, "")), i))

\* delete after `await this.getSubscription(topic)` (lines 101-107)
DeleteApply(i) ==
  /\ Runs(i, "delete", "apply")
  /\ LET t == tasks[i] IN
     Step(Finish(emit([Store EXCEPT !.subscriptions = mapDelete(@, t.topic)],
                      Event("deleted", t.topic, t.sub.sequence, NoUpdate, t.reason)), i))

\* ------------------------------------------------- timers, beat and clock
\* set, get, update and delete await only promises that are already resolved
\* or the `enabled` event, so a call runs to its end in microtasks: timer
\* callbacks, beats and I/O completions are macrotasks and run only when no
\* call is in progress and restore is not between loading and enable.
Drained == tasks = <<>> /\ phase # "restoring"

\* an armed timer comes due: () => this.onTimeout(topic)
TimerFire ==
  /\ Drained
  /\ \E h \in BagToSet(timers) :
       /\ h.due <= now
       /\ Apply(fire(Store, h))
  /\ turn' = "callback"
  /\ UNCHANGED <<now, phase, storage, nextBeat, preStop, loadedFresh, calls,
                 relayVars>>

\* the client's beat: checkSubscriptions (lines 188-192, 269)
Beat ==
  /\ phase = "running"
  /\ Drained
  /\ nextBeat = now
  /\ Apply(checkSubscriptions(Store))
  /\ nextBeat' = now + CLIENT_BEAT_INTERVAL
  /\ turn' = IF tasks' = <<>> THEN "api" ELSE "callback"
  /\ UNCHANGED <<now, phase, storage, preStop, loadedFresh, calls, relayVars>>

Quiet == tasks = <<>> /\ writes = <<>>

Tick ==
  /\ now < MaxTime
  /\ phase \in {"constructed", "running"}
  /\ Quiet
  /\ NothingDue
  /\ now' = now + 1
  /\ emitted' = <<>>
  /\ thrown' = <<>>
  /\ UNCHANGED <<phase, subscriptions, timeout, timers, cached, tasks, storage,
                 writes, nextBeat, preStop, loadedFresh, calls, turn, relayVars>>

\* the oldest storage.setItem in flight completes
StorageWrite ==
  /\ writes # <<>>
  /\ Drained
  /\ storage' = [present |-> TRUE, value |-> Head(writes)]
  /\ writes' = Tail(writes)
  /\ emitted' = <<>>
  /\ thrown' = <<>>
  /\ UNCHANGED <<now, phase, subscriptions, timeout, timers, cached, tasks,
                 nextBeat, preStop, loadedFresh, calls, turn, relayVars>>

\* the process stops and a new client is constructed on the same storage
Restart ==
  /\ phase = "running"
  /\ Quiet
  /\ phase' = "constructed"
  /\ preStop' = subscriptions
  /\ subscriptions' = <<>>
  /\ timeout' = EmptyMap
  /\ timers' = EmptyBag
  /\ nextBeat' = 0
  /\ emitted' = <<>>
  /\ thrown' = <<>>
  /\ loadedFresh' = TRUE
  /\ UNCHANGED <<now, cached, tasks, storage, writes, calls, turn, relayVars>>

\* ---------------------------------------------------------------- Relayer
\* no unsubscribe call in progress
NoCall == [topic |-> "", id |-> 0, before |-> <<>>, asked |-> <<>>, left |-> 0]

RelayIdle ==
  /\ relayed = [t \in {} |-> <<>>]
  /\ listeners = {}
  /\ requests = {}
  /\ nextId = 1
  /\ pending = NoCall
  /\ connected = TRUE
  /\ connects = 0
  /\ relayEmitted = <<>>
  /\ keychain = [t \in Topics |-> 0]
  /\ decoding = <<>>
  /\ payloads = <<>>
  /\ wire = <<>>
  /\ publishing = <<>>
  /\ inbound = <<>>
  /\ published = <<>>

\* a value that is undefined
Undefined == "undefined"

\* permissions without methods and types
NoPermissions ==
  [jsonrpc |-> [methods |-> <<>>], notifications |-> [types |-> <<>>],
   controller |-> [publicKey |-> Undefined]]

\* an upgrade that proposes nothing
NoUpgrade ==
  [jsonrpc |-> [defined |-> FALSE, methods |-> <<>>],
   notifications |-> [defined |-> FALSE, types |-> <<>>]]

\* The stores of Pairing and Session in the order Client.initialize inits
\* them (pairing.ts 55-56, subscription.ts 795-796); all share client.events.
StoreNames == <<"pairing.pending", "pairing.settled", "session.pending", "session.settled">>

\* the stores as their constructors leave them, nothing persisted
NoStores ==
  [phase |-> [s \in DOMAIN StoreNames |-> "constructed"],
   persisted |-> [s \in DOMAIN StoreNames |-> 0],
   cached |-> [s \in DOMAIN StoreNames |-> 0],
   ops |-> <<>>,
   enabled |-> <<>>]

\* no mergeUpgrade in progress
NotMerging ==
  [done |-> FALSE, settled |-> NoPermissions, upgrade |-> NoUpgrade,
   merged |-> NoPermissions]

\* a client that is not a controller, has app metadata and made no call
ApiIdle ==
  /\ client = [controller |-> FALSE, metadata |-> "app"]
  /\ results = <<>>
  /\ merging = NotMerging
  /\ stores = NoStores
  /\ attempts = <<>>

Init == StoreInit /\ RelayIdle /\ ApiIdle

Next ==
  \/ RestoreStart
  \/ RestoreEnable
  \/ SetBeatInterval
  \/ SetCall
  \/ GetCall
  \/ UpdateCall
  \/ DeleteCall
  \/ \E i \in DOMAIN tasks : SetRun(i)
  \/ \E i \in DOMAIN tasks : SetEmit(i)
  \/ \E i \in DOMAIN tasks : GetSubscriptionRun(i)
  \/ \E i \in DOMAIN tasks : UpdateApply(i)
  \/ \E i \in DOMAIN tasks : DeleteApply(i)
  \/ TimerFire
  \/ Beat
  \/ Tick
  \/ StorageWrite
  \/ Restart

Spec == Init /\ [][Next]_vars

\* ids the Relayer holds for a topic: this.subscriptions.get(topic) || []
idsOf(topic) == IF topic \in DOMAIN relayed THEN relayed[topic] ELSE <<>>

\* a relay request awaiting its reply
Request(method, topic, id) == [method |-> method, topic |-> topic, id |-> id]

RECURSIVE unsubscribeRequests(_, _)
\* subscriptions.map(id => this.unsubscribeId(topic, id, opts)): every
\* unsubscribeId runs up to its provider.request
unsubscribeRequests(topic, ids) ==
  IF ids = <<>> THEN {}
  ELSE {Request("unsubscribe", topic, Head(ids))}
         \cup unsubscribeRequests(topic, Tail(ids))

\* subscriptions.filter(x => x === id)
filter(ids, id) == SelectSeq(ids, LAMBDA x : x = id)

\* Relayer.subscribe up to its provider.request; the server picks the id.
Subscribe ==
  /\ nextId <= MaxIds
  /\ \E topic \in Topics :
       requests' = requests \cup {Request("subscribe", topic, nextId)}
  /\ nextId' = nextId + 1
  /\ UNCHANGED <<relayed, listeners, pending, storeVars, wireVars, msgVars>>

\* Relayer.subscribe after its provider.request: the id joins the topic's
\* list and gets its listener.
SubscribeReply ==
  \E r \in requests :
    /\ connected
    /\ r.method = "subscribe"
    /\ relayed' = (r.topic :> Append(idsOf(r.topic), r.id)) @@ relayed
    /\ listeners' = listeners \cup {r.id}
    /\ requests' = requests \ {r}
    /\ UNCHANGED <<nextId, pending, storeVars, wireVars, msgVars>>

\* Relayer.unsubscribe(topic, {relay, id}): one unsubscribeId.
UnsubscribeWithId ==
  /\ pending = NoCall
  /\ \E topic \in Topics, id \in 1..(nextId - 1) :
       /\ requests' = requests \cup {Request("unsubscribe", topic, id)}
       /\ pending' = [topic |-> topic, id |-> id, before |-> idsOf(topic),
                      asked |-> <<id>>, left |-> 1]
  /\ UNCHANGED <<relayed, listeners, nextId, storeVars, wireVars, msgVars>>

\* Relayer.unsubscribe(topic) without id, for a topic that has ids: one
\* unsubscribeId per id, all awaited together.  (Without any id the call
\* returns and changes nothing.)
UnsubscribeTopic ==
  /\ pending = NoCall
  /\ \E topic \in DOMAIN relayed :
       /\ relayed[topic] # <<>>
       /\ requests' = requests \cup unsubscribeRequests(topic, relayed[topic])
       /\ pending' = [topic |-> topic, id |-> 0, before |-> relayed[topic],
                      asked |-> relayed[topic], left |-> Len(relayed[topic])]
  /\ UNCHANGED <<relayed, listeners, nextId, storeVars, wireVars, msgVars>>

\* unsubscribeId after its provider.request; the call in progress ends with
\* the last of its unsubscribeId.
UnsubscribeReply ==
  \E r \in requests :
    /\ connected
    /\ r.method = "unsubscribe"
    /\ listeners' = listeners \ {r.id}
    /\ relayed' = IF r.topic \in DOMAIN relayed
                  THEN [relayed EXCEPT ![r.topic] = filter(@, r.id)]
                  ELSE relayed
    /\ requests' = requests \ {r}
    /\ pending' = IF pending.left <= 1 THEN NoCall
                  ELSE [pending EXCEPT !.left = @ - 1]
    /\ UNCHANGED <<nextId, storeVars, wireVars, msgVars>>

\* the provider's "disconnect" (lines 522-525): relayer_disconnect is
\* emitted and provider.connect() is called
\* the disconnect handler that reconnects after the first disconnect only
onDisconnectOnce(n) == IF n = 0 THEN 1 ELSE n

\* this.provider.connect() in the disconnect handler (line 524): one more
\* connection attempt
onDisconnect(n) == n + 1

ProviderDisconnect ==
  /\ connects < MaxDisconnects
  /\ connected' = FALSE
  /\ connects' = onDisconnect(connects)
  /\ relayEmitted' = <<"relayer_disconnect">>
  /\ UNCHANGED <<relayed, listeners, requests, nextId, pending, storeVars, msgVars>>

\* a connection attempt succeeds, the provider's "connect" (line 521)
ProviderConnect ==
  /\ ~connected
  /\ connected' = TRUE
  /\ relayEmitted' = <<"relayer_connect">>
  /\ UNCHANGED <<relayed, listeners, requests, nextId, pending, connects, storeVars, msgVars>>

\* the provider's "error" (line 526)
ProviderError ==
  /\ relayEmitted' = <<"relayer_error">>
  /\ UNCHANGED <<relayed, listeners, requests, nextId, pending, connected,
                 connects, storeVars, msgVars>>

NextRelayer ==
  \/ Subscribe
  \/ SubscribeReply
  \/ UnsubscribeWithId
  \/ UnsubscribeTopic
  \/ UnsubscribeReply
  \/ ProviderDisconnect
  \/ ProviderConnect
  \/ ProviderError

SpecRelayer == Init /\ [][NextRelayer]_vars

\* ------------------------------------------- the Relayer behind the store
\* The Relayer's listeners of the store's events (lines 527-532):
\* created -> this.subscribe(event.topic, event.opts), deleted ->
\* this.unsubscribe(event.topic, event.opts); the events carry no opts, so
\* unsubscribe takes the ids the topic has at that moment.  Each runs, inside
\* the emit, up to its provider.request.
RelayerOnEvents(events) ==
  IF events = <<>> \/ events[1].type = "updated"
    THEN UNCHANGED relayVars
  ELSE IF events[1].type = "created"
    THEN /\ requests' = requests \cup {Request("subscribe", events[1].topic, nextId)}
         /\ nextId' = nextId + 1
         /\ UNCHANGED <<relayed, listeners, pending, wireVars, msgVars>>
  ELSE /\ requests' = requests
                        \cup unsubscribeRequests(events[1].topic, idsOf(events[1].topic))
       /\ UNCHANGED <<relayed, listeners, nextId, pending, wireVars, msgVars>>

\* a step of a call of the store, the Relayer listening
StepRelayed(st) == StepStore(st) /\ RelayerOnEvents(st.emitted)

SetEmitRelayed(i) ==
  /\ Runs(i, "set", "emit")
  /\ LET t == tasks[i] IN
     StepRelayed(Finish(emit(Store, Event("created", t.topic, t.arg, NoUpdate, "")), i))

DeleteApplyRelayed(i) ==
  /\ Runs(i, "delete", "apply")
  /\ LET t == tasks[i] IN
     StepRelayed(Finish(emit([Store EXCEPT !.subscriptions = mapDelete(@, t.topic)],
                             Event("deleted", t.topic, t.sub.sequence, NoUpdate, t.reason)), i))

\* the relay's replies are I/O completions: they run when no call of the
\* store is in progress
SubscribeReplied == Drained /\ SubscribeReply

UnsubscribeReplied == Drained /\ UnsubscribeReply

NextClient ==
  \/ RestoreStart
  \/ SetBeatInterval
  \/ SetCall
  \/ UpdateCall
  \/ DeleteCall
  \/ \E i \in DOMAIN tasks : SetRun(i)
  \/ \E i \in DOMAIN tasks : SetEmitRelayed(i)
  \/ \E i \in DOMAIN tasks : GetSubscriptionRun(i)
  \/ \E i \in DOMAIN tasks : UpdateApply(i)
  \/ \E i \in DOMAIN tasks : DeleteApplyRelayed(i)
  \/ TimerFire
  \/ Beat
  \/ Tick
  \/ StorageWrite
  \/ SubscribeReplied
  \/ UnsubscribeReplied
  \/ Drained /\ ProviderDisconnect
  \/ Drained /\ ProviderConnect

SpecClient == Init /\ [][NextClient]_vars

\* ------------------------------------------------------------------ claims
Present(topic) == has(subscriptions, topic)

Entries(subs) == {subs[i] : i \in DOMAIN subs}

PersistedView == IF storage.present THEN storage.value ELSE <<>>

\* C1: while restore holds the persisted entries in `cached`, all of them are
\* in the table and every call made on the store waits before its first
\* access to the table; a call made during that time reads or writes the
\* table only after `enabled` was emitted and `cached` emptied.
RestoreGate ==
  /\ cached # <<>> =>
       /\ phase = "restoring"
       /\ subscriptions = cached
       /\ \A i \in DOMAIN tasks : tasks[i].pc = "start" /\ tasks[i].blocked
  /\ \A i \in DOMAIN tasks :
       tasks[i].gated /\ tasks[i].pc # "start" =>
         cached = <<>> /\ phase \in {"restored", "running"}

\* a call made while restore was loading has gone on to the table
RestoreGateWitness ==
  \E i \in DOMAIN tasks :
    tasks[i].gated /\ tasks[i].pc = "apply" /\ tasks[i].reason # EXPIRED

\* C2: in a store that started without persisted entries, after any sequence
\* of set, update, delete, beat and timer steps, no entry is in the table
\* (observable by get, topics or values) at a time later than its expiry,
\* once the calls in progress have ended.
NoEntryAfterExpiry ==
  (phase = "running" /\ tasks = <<>> /\ preStop = <<>>) =>
    \A i \in DOMAIN subscriptions : now <= subscriptions[i].expiry

\* C3: as long as beats keep occurring an entry whose expiry has passed is
\* on its way out: after every beat at or after its expiry either its timer
\* is armed or its delete with reason EXPIRED has been started.
ExpiredEntryIsRemoved ==
  [][Beat =>
       \A i \in DOMAIN subscriptions :
         now >= subscriptions[i].expiry =>
           \/ \E h \in BagToSet(timers') : h.topic = subscriptions[i].topic
           \/ \E j \in DOMAIN tasks' :
                /\ tasks'[j].op = "delete"
                /\ tasks'[j].topic = subscriptions[i].topic
                /\ tasks'[j].reason = EXPIRED
    ]_vars

\* C4: once delete(topic, reason) has ended no timer stays armed for the
\* topic it removed: every armed timer belongs to an entry of the table.
DeleteCancelsTimer ==
  tasks = <<>> => \A h \in BagToSet(timers) : Present(h.topic)

\* C5: the table holds at most one entry per topic and at most one timer is
\* armed per topic.
OneEntryOneTimerPerTopic ==
  /\ \A i, j \in DOMAIN subscriptions :
       subscriptions[i].topic = subscriptions[j].topic => i = j
  /\ \A h \in BagToSet(timers) : CopiesIn(h, timers) = 1
  /\ \A g, h \in BagToSet(timers) : g.topic = h.topic => g = h

\* a beat has walked the table while the timer of an entry was armed
OneEntryOneTimerWitness ==
  /\ phase = "running"
  /\ preStop = <<>>
  /\ nextBeat = now + CLIENT_BEAT_INTERVAL
  /\ Present("t2")
  /\ mapGet(subscriptions, "t2").expiry = now + 1
  /\ timers = SetToBag({[topic |-> "t2", due |-> now + 1]})

RestartKeepsEntries ==
  (phase # "constructed" /\ loadedFresh) =>
    /\ Entries(subscriptions) = Entries(preStop)
    /\ Len(subscriptions) = Len(preStop)

\* two entries that differ in relay and expiry have been restored
RestartKeepsEntriesWitness ==
  /\ phase = "running"
  /\ loadedFresh
  /\ Len(preStop) = 2
  /\ preStop[1].relay # preStop[2].relay
  /\ preStop[1].expiry # preStop[2].expiry
  /\ preStop[1].sequence # preStop[2].sequence

\* C9: when Relayer.unsubscribe(topic, {id}) ends for an id registered under
\* topic, the id has left the topic's list and every other id that was in
\* the list is still there.
UnsubscribeIdRemovesOnlyId ==
  [][(/\ pending.id # 0
      /\ pending' = NoCall
      /\ \E k \in DOMAIN pending.before : pending.before[k] = pending.id) =>
       LET ids == relayed'[pending.topic] IN
       /\ \A k \in DOMAIN ids : ids[k] # pending.id
       /\ \A k \in DOMAIN pending.before :
            pending.before[k] # pending.id =>
              \E j \in DOMAIN ids : ids[j] = pending.before[k]
    ]_vars

\* C10: when Relayer.unsubscribe(topic) without id ends, none of the ids the
\* topic had is left in its list, and one unsubscribe request was sent for
\* each of them.
UnsubscribeTopicRemovesAll ==
  [][(pending # NoCall /\ pending.id = 0 /\ pending' = NoCall) =>
       LET ids == relayed'[pending.topic] IN
       /\ \A k \in DOMAIN pending.before, j \in DOMAIN ids :
            ids[j] # pending.before[k]
       /\ pending.asked = pending.before
    ]_vars

\* C11: once every relay request has completed and no call of the store is
\* in progress, the Relayer holds subscription ids and listeners only for
\* topics present in the store.
RelayerFollowsStore ==
  (requests = {} /\ tasks = <<>>) =>
    /\ \A t \in DOMAIN relayed : relayed[t] # <<>> => Present(t)
    /\ \A id \in listeners :
         \E t \in DOMAIN relayed :
           Present(t) /\ \E k \in DOMAIN relayed[t] : relayed[t][k] = id

\* C12: when the transport is connected again after a disconnect, a subscribe
\* request is issued for every topic the store holds and had subscribed.
ReconnectResubscribes ==
  [][(~connected /\ connected') =>
       \A t \in Topics :
         (Present(t) /\ t \in DOMAIN relayed) =>
           \E r \in requests' \ requests : r.method = "subscribe" /\ r.topic = t
    ]_vars

\* C13: every disconnect of the transport makes the Relayer emit
\* relayer_disconnect and start one more connection attempt, whatever
\* happened before; a transport error makes it emit relayer_error only; in
\* both cases the requests awaiting their reply and the unsubscribe in
\* progress stay as they are.
DisconnectReconnects ==
  [][/\ ProviderDisconnect =>
          /\ relayEmitted' = <<"relayer_disconnect">>
          /\ connects' = connects + 1
          /\ requests' = requests /\ pending' = pending
     /\ ProviderError =>
          /\ relayEmitted' = <<"relayer_error">>
          /\ connects' = connects /\ connected' = connected
          /\ requests' = requests /\ pending' = pending
    ]_vars

\* a second disconnect, before the first connection attempt succeeded and
\* with a request awaiting its reply, has started a second attempt
DisconnectReconnectsWitness ==
  /\ relayEmitted = <<"relayer_disconnect">>
  /\ ~connected
  /\ connects = 2
  /\ requests # {}

\* ---------------------------------------------------------------------
\* Messages: Relayer.publish, the listener of a subscription id, onPayload

MaxPushes == 2
MaxPublishes == 2

\* keys of the keychain; 0 stands for "no key for this topic"
Keys == {0, 1}

\* a JSON-RPC payload object, not encoded
Text(p) == [body |-> p, layers |-> <<>>, key |-> 0]

Payloads == {Text("p1"), Text("p2")}

\* the outermost encoding of a value, "" when it has none
top(x) == IF x.layers = <<>> THEN "" ELSE x.layers[Len(x.layers)]

wrap(x, layer) == [x EXCEPT !.layers = Append(@, layer)]

unwrap(x) == [x EXCEPT !.layers = SubSeq(@, 1, Len(@) - 1)]

safeJsonStringify(payload) == wrap(payload, "json")

\* returns its input when the input is not JSON text
safeJsonParse(x) == IF top(x) = "json" THEN unwrap(x) ELSE x

utf8ToHex(x) == wrap(x, "hex")

\* decoding something that is not hex-encoded text yields other text
hexToUtf8(x) == IF top(x) = "hex" THEN unwrap(x) ELSE wrap(x, "utf8")

\* client.crypto.hasKeys(topic)
hasKeys(topic) == keychain[topic] # 0

\* client.crypto.encrypt under key k
encrypt(k, x) == [wrap(x, "sealed") EXCEPT !.key = k]

\* client.crypto.decrypt under key k succeeds on what key k sealed
canDecrypt(k, x) == top(x) = "sealed" /\ x.key = k

\* what decrypt yields; DECRYPTION_FAILED when k did not seal x
decrypt(k, x) ==
  IF canDecrypt(k, x) THEN [unwrap(x) EXCEPT !.key = 0]
  ELSE wrap(x, "DECRYPTION_FAILED")

\* publish, lines 362-363:
\* hasKeys ? await crypto.encrypt(topic, msg) : utf8ToHex(msg)
encode(k, msg) == IF k # 0 THEN encrypt(k, msg) ELSE utf8ToHex(msg)

\* the listener that decrypts whether or not the topic has a key
decodeAlwaysDecrypt(k, message) == safeJsonParse(decrypt(k, message))

\* the listener, lines 403-406:
\* safeJsonParse(hasKeys ? await crypto.decrypt(topic, message)
\*                       : hexToUtf8(message))
decode(k, message) ==
  safeJsonParse(IF k # 0 THEN decrypt(k, message) ELSE hexToUtf8(message))

\* the messages publish produces
Messages == {encode(k, safeJsonStringify(p)) : k \in Keys, p \in Payloads}

\* the topic captured by the listener of a subscription id
topicOf(id) == CHOOSE t \in DOMAIN relayed : \E n \in DOMAIN relayed[t] : relayed[t][n] = id

\* a subscription id no listener is registered for
NoListener == 0

\* isJsonRpcRequest(payload) && payload.method.endsWith("_subscription")
isSubscription(payload) == payload.kind = "subscription"

\* formatJsonRpcResult(payload.id, true)
formatJsonRpcResult(id, result) == [type |-> "result", id |-> id, result |-> result]

\* onPayload: a push is handed to the listener of its subscription id, which
\* runs up to its first await, and the acknowledgement is sent right away;
\* any other payload is dropped.
TransportPayload ==
  /\ connected
  /\ Len(inbound) < MaxPushes
  /\ \E kind \in {"subscription", "request", "response"},
        id \in listeners \cup {NoListener}, message \in Messages :
       LET payload == [kind |-> kind, id |-> Len(inbound) + 1,
                       params |-> [id |-> id, message |-> message]]
       IN /\ inbound' = Append(inbound, payload)
          /\ IF isSubscription(payload)
             THEN /\ decoding' =
                       IF id \in listeners
                       THEN Append(decoding, [topic |-> topicOf(id), message |-> message,
                                              of |-> payload.id, pc |-> "hasKeys", key |-> 0])
                       ELSE decoding
                  /\ wire' = Append(wire, formatJsonRpcResult(payload.id, TRUE))
             ELSE UNCHANGED <<decoding, wire>>
  /\ UNCHANGED <<relayed, listeners, requests, nextId, pending, wireVars, storeVars, apiVars,
                 keychain, payloads, publishing, published>>

\* this.events.emit(RELAYER_EVENTS.payload, {topic, payload})
emitPayload(task, payload) ==
  Append(payloads, [topic |-> task.topic, payload |-> payload, of |-> task.of])

\* calls of one crypto operation settle in the order they were made
First(waiting, i) == \A j \in 1..(i - 1) : waiting[j].pc # waiting[i].pc

\* the listener after "await crypto.hasKeys(topic)": with a key it calls
\* crypto.decrypt and awaits it, without one it emits the payload event
ListenerHasKeys(i) ==
  /\ decoding[i].pc = "hasKeys"
  /\ First(decoding, i)
  /\ IF hasKeys(decoding[i].topic)
     THEN /\ decoding' = [decoding EXCEPT ![i].pc = "decrypt",
                                          ![i].key = keychain[decoding[i].topic]]
          /\ UNCHANGED payloads
     ELSE /\ decoding' = Remove(decoding, i)
          /\ payloads' = emitPayload(decoding[i], decode(0, decoding[i].message))
  /\ UNCHANGED <<relayed, listeners, requests, nextId, pending, wireVars, storeVars, apiVars,
                 keychain, wire, publishing, inbound, published>>

\* the listener after "await crypto.decrypt(topic, message)": the payload
\* event is emitted; when decrypt fails the listener ends without one
ListenerDecrypted(i) ==
  /\ decoding[i].pc = "decrypt"
  /\ First(decoding, i)
  /\ decoding' = Remove(decoding, i)
  /\ payloads' = IF canDecrypt(decoding[i].key, decoding[i].message)
                 THEN emitPayload(decoding[i], decode(decoding[i].key, decoding[i].message))
                 ELSE payloads
  /\ UNCHANGED <<relayed, listeners, requests, nextId, pending, wireVars, storeVars, apiVars,
                 keychain, wire, publishing, inbound, published>>

\* the keychain gains, loses or replaces the key of a topic
KeyChange ==
  /\ \E topic \in Topics, k \in Keys :
       /\ k # keychain[topic]
       /\ keychain' = [keychain EXCEPT ![topic] = k]
  /\ UNCHANGED <<relayed, listeners, requests, nextId, pending, wireVars, storeVars, apiVars,
                 decoding, payloads, wire, publishing, inbound, published>>

\* the client after Relayer.subscribe was called for each topic: both
\* requests are with the server, which picked ids 1 and 2
Subscribing ==
  /\ relayed = [t \in {} |-> <<>>]
  /\ listeners = {}
  /\ requests = {Request("subscribe", "t1", 1), Request("subscribe", "t2", 2)}
  /\ nextId = 3
  /\ pending = NoCall
  /\ connected = TRUE
  /\ connects = 0
  /\ relayEmitted = <<>>
  /\ keychain = [t \in Topics |-> 0]
  /\ decoding = <<>>
  /\ payloads = <<>>
  /\ wire = <<>>
  /\ publishing = <<>>
  /\ inbound = <<>>
  /\ published = <<>>

InitInbound == StoreInit /\ Subscribing /\ ApiIdle

NextInbound ==
  \/ SubscribeReply
  \/ KeyChange
  \/ TransportPayload
  \/ \E i \in DOMAIN decoding : ListenerHasKeys(i)
  \/ \E i \in DOMAIN decoding : ListenerDecrypted(i)

SpecInbound == InitInbound /\ [][NextInbound]_vars

\* C14: the payload events follow the order in which the transport delivered
\* their pushes: the event of an earlier push is never emitted after the
\* event of a later one.
PayloadsInDeliveryOrder ==
  \A i, j \in DOMAIN payloads :
    i < j => payloads[i].of < payloads[j].of

\* C16: an acknowledgement is on the wire only for a delivered push, once per
\* push, carries the push's id and result true, and is sent only after the
\* payload event of that push was emitted.
AckAfterPayloadEvent ==
  \A n \in DOMAIN wire :
    wire[n].type = "result" =>
      /\ wire[n].result = TRUE
      /\ wire[n].id \in DOMAIN inbound
      /\ isSubscription(inbound[wire[n].id])
      /\ \A m \in DOMAIN wire : wire[m] = wire[n] => m = n
      /\ \E e \in DOMAIN payloads : payloads[e].of = wire[n].id

\* the listener at position i ends with this step, having read key k
ListenerEnds(i, k) ==
  \/ ListenerHasKeys(i) /\ ~hasKeys(decoding[i].topic) /\ k = 0
  \/ ListenerDecrypted(i) /\ k = decoding[i].key

\* C17: when the listener of a subscribed topic ends on a message that
\* publish made from payload p under the key the listener read (or under
\* none, when the listener found none), that step emits exactly one payload
\* event, {topic, p}; no other step emits a payload event.
PublishedPayloadRoundTrips ==
  [][/\ \A i \in DOMAIN decoding, k \in Keys, p \in Payloads :
          (ListenerEnds(i, k)
             /\ decoding[i].message = encode(k, safeJsonStringify(p)))
            => payloads' = Append(payloads, [topic |-> decoding[i].topic,
                                             payload |-> p,
                                             of |-> decoding[i].of])
     /\ payloads' # payloads =>
          \E i \in DOMAIN decoding, k \in Keys : ListenerEnds(i, k)]_vars

\* a sealed message was delivered for a topic whose key sealed it, and its
\* payload event carries one of the published payloads
PublishedPayloadRoundTripsWitness ==
  \E e \in DOMAIN payloads :
    /\ payloads[e].payload \in Payloads
    /\ top(inbound[payloads[e].of].params.message) = "sealed"
    /\ \E f \in DOMAIN payloads :
         top(inbound[payloads[f].of].params.message) = "hex"
           /\ payloads[f].payload \in Payloads

\* Relayer.publish up to "await crypto.hasKeys(topic)"
PublishCall ==
  /\ Len(published) < MaxPublishes
  /\ \E topic \in Topics, payload \in Payloads :
       /\ published' = Append(published, [topic |-> topic, payload |-> payload])
       /\ publishing' = Append(publishing, [topic |-> topic,
                                            message |-> safeJsonStringify(payload),
                                            of |-> Len(published) + 1,
                                            pc |-> "hasKeys", key |-> 0])
  /\ UNCHANGED <<relayed, listeners, requests, nextId, pending, wireVars, storeVars, apiVars,
                 keychain, decoding, payloads, wire, inbound>>

\* provider.request({method: jsonRpc.publish, params: {topic, message, ttl}})
request(task, k) ==
  Append(wire, [type |-> "publish", topic |-> task.topic,
                message |-> encode(k, task.message), of |-> task.of])

\* publish after "await crypto.hasKeys(topic)": with a key it calls
\* crypto.encrypt and awaits it, without one it hands the hex-encoded
\* message to the provider
PublishHasKeys(i) ==
  /\ publishing[i].pc = "hasKeys"
  /\ First(publishing, i)
  /\ IF hasKeys(publishing[i].topic)
     THEN /\ publishing' = [publishing EXCEPT ![i].pc = "encrypt",
                                              ![i].key = keychain[publishing[i].topic]]
          /\ UNCHANGED wire
     ELSE /\ publishing' = Remove(publishing, i)
          /\ wire' = request(publishing[i], 0)
  /\ UNCHANGED <<relayed, listeners, requests, nextId, pending, wireVars, storeVars, apiVars,
                 keychain, decoding, payloads, inbound, published>>

\* publish after "await crypto.encrypt(topic, msg)"
PublishEncrypted(i) ==
  /\ publishing[i].pc = "encrypt"
  /\ First(publishing, i)
  /\ publishing' = Remove(publishing, i)
  /\ wire' = request(publishing[i], publishing[i].key)
  /\ UNCHANGED <<relayed, listeners, requests, nextId, pending, wireVars, storeVars, apiVars,
                 keychain, decoding, payloads, inbound, published>>

NextOutbound ==
  \/ KeyChange
  \/ PublishCall
  \/ \E i \in DOMAIN publishing : PublishHasKeys(i)
  \/ \E i \in DOMAIN publishing : PublishEncrypted(i)

SpecOutbound == Init /\ [][NextOutbound]_vars

\* C15: the publish requests of one topic are handed to the transport in the
\* order of their publish calls.
PublishesInCallOrder ==
  \A i, j \in DOMAIN wire :
    (i < j /\ wire[i].topic = wire[j].topic) => wire[i].of < wire[j].of

\* ---------------------------------------------------------------------
\* Client.connect, Client.pair, Client.approve

MaxApiCalls == 2

\* formatPairingProposal(params.uri) and params.proposal
Proposals == [proposer : [controller : BOOLEAN]]

\* params.response of approve
Responses ==
  {[defined |-> FALSE, metadata |-> Undefined]}
    \cup {[defined |-> TRUE, metadata |-> m] : m \in {"app", Undefined}}

\* a client that approves whatever the proposer's flag is
approvedAlways(proposal) == TRUE

\* proposal.proposer.controller !== this.controller
approved(proposal) == proposal.proposer.controller # client.controller

\* approved ? undefined : ERROR.UNAUTHORIZED_MATCHING_CONTROLLER
reason(isApproved) ==
  IF isApproved THEN Undefined ELSE "UNAUTHORIZED_MATCHING_CONTROLLER"

\* the sequence's respond: an approval yields the settled topic, a rejection
\* the reason
respond(params) ==
  [status |-> "responded",
   outcome |-> IF params.approved
               THEN [topic |-> "settled", reason |-> Undefined]
               ELSE [topic |-> Undefined, reason |-> params.reason]]

isResponded(responded) == responded.status = "responded"

isFailed(outcome) == outcome.reason # Undefined

\* a call the Client makes on its pairing or session sequence
Op(on, method, params) == [on |-> on, method |-> method, params |-> params]

\* what pair and approve do with the pending sequence respond returned
afterRespond(responded) ==
  IF ~isResponded(responded)
  THEN [error |-> "NO_MATCHING_RESPONSE", returned |-> Undefined]
  ELSE IF isFailed(responded.outcome)
  THEN [error |-> responded.outcome.reason, returned |-> Undefined]
  ELSE [error |-> Undefined, returned |-> responded.outcome.topic]

Pair ==
  /\ Len(results) < MaxApiCalls
  /\ \E proposal \in Proposals :
       LET params == [approved |-> approved(proposal),
                      reason |-> reason(approved(proposal))]
           after == afterRespond(respond(params))
       IN results' = Append(results,
            [call |-> "pair", proposal |-> proposal,
             invoked |-> <<Op("pairing", "respond", params)>>,
             error |-> after.error, returned |-> after.returned])
  /\ UNCHANGED <<storeVars, relayed, listeners, requests, nextId, pending, wireVars,
                 keychain, decoding, payloads, wire, publishing, inbound, published,
                 client, merging, stores, attempts>>

Approve ==
  /\ Len(results) < MaxApiCalls
  /\ \E proposal \in Proposals, response \in Responses :
       LET metadata == IF response.metadata # Undefined
                       THEN response.metadata ELSE client.metadata
           params == [approved |-> approved(proposal),
                      reason |-> reason(approved(proposal))]
           after == afterRespond(respond(params))
       IN results' = Append(results,
            IF ~response.defined
            THEN [call |-> "approve", proposal |-> proposal, invoked |-> <<>>,
                  error |-> "MISSING_RESPONSE", returned |-> Undefined]
            ELSE IF metadata = Undefined
            THEN [call |-> "approve", proposal |-> proposal, invoked |-> <<>>,
                  error |-> "MISSING_OR_INVALID", returned |-> Undefined]
            ELSE [call |-> "approve", proposal |-> proposal,
                  invoked |-> <<Op("session", "respond", params)>>,
                  error |-> after.error, returned |-> after.returned])
  /\ UNCHANGED <<storeVars, relayed, listeners, requests, nextId, pending, wireVars,
                 keychain, decoding, payloads, wire, publishing, inbound, published,
                 client, merging, stores, attempts>>

Connect ==
  /\ Len(results) < MaxApiCalls
  /\ \E pairing \in {Undefined, "t1"}, given \in {"app", Undefined} :
       LET metadata == IF given # Undefined THEN given ELSE client.metadata
           first == IF pairing = Undefined
                    THEN Op("pairing", "create", [topic |-> Undefined])
                    ELSE Op("pairing", "get", [topic |-> pairing])
       IN results' = Append(results,
            IF metadata = Undefined
            THEN [call |-> "connect", invoked |-> <<first>>,
                  error |-> "MISSING_OR_INVALID", returned |-> Undefined]
            ELSE [call |-> "connect",
                  invoked |-> <<first, Op("session", "create", [topic |-> Undefined])>>,
                  error |-> Undefined, returned |-> "session"])
  /\ UNCHANGED <<storeVars, relayed, listeners, requests, nextId, pending, wireVars,
                 keychain, decoding, payloads, wire, publishing, inbound, published,
                 client, merging, stores, attempts>>

\* SESSION_JSONRPC.propose
SESSION_JSONRPC_propose == "wc_sessionPropose"

\* the methods of the requests a pairing delivers
RequestMethods == {SESSION_JSONRPC_propose, "wc_sessionPayload"}

\* a listener that takes no proposal for one of a matching controller
matchingControllerNever(proposal) == FALSE

\* proposal.proposer.controller === this.controller
matchingController(proposal) == proposal.proposer.controller = client.controller

\* the listener of PAIRING_EVENTS.request (lines 821-842): a session
\* proposal of a matching controller is rejected through session.respond,
\* any other session proposal is emitted as CLIENT_EVENTS.session.proposal
PairingRequest ==
  /\ Len(results) < MaxApiCalls
  /\ \E method \in RequestMethods, proposal \in Proposals :
       results' = Append(results,
         IF method # SESSION_JSONRPC_propose
         THEN [call |-> "request", method |-> method, proposal |-> proposal,
               invoked |-> <<>>, events |-> <<>>,
               error |-> Undefined, returned |-> Undefined]
         ELSE IF matchingController(proposal)
         THEN [call |-> "request", method |-> method, proposal |-> proposal,
               invoked |-> <<Op("session", "respond",
                                [approved |-> FALSE,
                                 reason |-> "UNAUTHORIZED_MATCHING_CONTROLLER"])>>,
               events |-> <<>>, error |-> Undefined, returned |-> Undefined]
         ELSE [call |-> "request", method |-> method, proposal |-> proposal,
               invoked |-> <<>>,
               events |-> <<[name |-> "session_proposal", data |-> proposal]>>,
               error |-> Undefined, returned |-> Undefined])
  /\ UNCHANGED <<storeVars, relayed, listeners, requests, nextId, pending, wireVars,
                 keychain, decoding, payloads, wire, publishing, inbound, published,
                 client, merging, stores, attempts>>

\* a client as its constructor leaves it: opts.controller || false,
\* opts.metadata || getAppMetadata()
InitApi ==
  /\ StoreInit
  /\ RelayIdle
  /\ client \in [controller : BOOLEAN, metadata : {"app", Undefined}]
  /\ results = <<>>
  /\ merging = NotMerging
  /\ stores = NoStores
  /\ attempts = <<>>

NextApi == Pair \/ Approve \/ Connect \/ PairingRequest

SpecApi == InitApi /\ [][NextApi]_vars

\* the positions of the respond calls a call of the Client made
Responds(r) == {k \in DOMAIN r.invoked : r.invoked[k].method = "respond"}

\* C18: a call of pair or approve that passes validation invokes respond;
\* when the proposer's controller flag equals the client's, every respond is
\* invoked with approved = false and reason UNAUTHORIZED_MATCHING_CONTROLLER
\* and the call returns no topic or session; when the flags differ, respond
\* is invoked with approved = true and no reason.
ControllerMatchRejects ==
  \A n \in DOMAIN results :
    LET r == results[n] IN
    r.call \in {"pair", "approve"} =>
      /\ r.error \notin {"MISSING_RESPONSE", "MISSING_OR_INVALID"} => Responds(r) # {}
      /\ IF r.proposal.proposer.controller = client.controller
         THEN /\ \A k \in Responds(r) :
                   /\ r.invoked[k].params.approved = FALSE
                   /\ r.invoked[k].params.reason = "UNAUTHORIZED_MATCHING_CONTROLLER"
              /\ r.returned = Undefined
         ELSE \A k \in Responds(r) :
                /\ r.invoked[k].params.approved = TRUE
                /\ r.invoked[k].params.reason = Undefined

\* pair was called with a proposal of the client's own flag and failed, and
\* approve with a proposal of the other flag and returned the session
ControllerMatchRejectsWitness ==
  \E n, m \in DOMAIN results :
    /\ results[n].call = "pair"
    /\ results[n].proposal.proposer.controller = client.controller
    /\ results[n].error = "UNAUTHORIZED_MATCHING_CONTROLLER"
    /\ results[m].call = "approve"
    /\ results[m].proposal.proposer.controller # client.controller
    /\ results[m].returned = "settled"

\* C19: a call that fails with MISSING_RESPONSE or MISSING_OR_INVALID has
\* created, proposed or responded to no pairing and no session.
ValidationFailsBeforeSequence ==
  \A n \in DOMAIN results :
    results[n].error \in {"MISSING_RESPONSE", "MISSING_OR_INVALID"} =>
      \A k \in DOMAIN results[n].invoked :
        results[n].invoked[k].method \notin {"create", "propose", "respond"}

\* ---------------------------------------------------------------------
\* Pairing.mergeUpgrade

MaxListLen == 2

Methods == {"m1", "m2"}

Types == {"n1", "n2"}

Range(list) == {list[n] : n \in DOMAIN list}

\* the lists over S, up to MaxListLen long, that name no element twice
Lists(S) ==
  {list \in UNION {[1..n -> S] : n \in 0..MaxListLen} :
     Cardinality(Range(list)) = Len(list)}

\* settled.permissions of a pairing
SettledPermissions ==
  {[jsonrpc |-> [methods |-> ms], notifications |-> [types |-> ts],
    controller |-> [publicKey |-> k]] :
     ms \in Lists(Methods), ts \in Lists(Types), k \in {"kA", "kB"}}

\* upgrade.permissions: jsonrpc and notifications are optional
UpgradePermissions ==
  {[jsonrpc |-> j, notifications |-> n] :
     j \in {[defined |-> FALSE, methods |-> <<>>]}
             \cup {[defined |-> TRUE, methods |-> ms] : ms \in Lists(Methods)},
     n \in {[defined |-> FALSE, types |-> <<>>]}
             \cup {[defined |-> TRUE, types |-> ts] : ts \in Lists(Types)}}

\* upgrade.permissions.jsonrpc?.methods || []
methodsOr(upgrade) == IF upgrade.jsonrpc.defined THEN upgrade.jsonrpc.methods ELSE <<>>

\* upgrade.permissions.notifications?.types || []
typesOr(upgrade) ==
  IF upgrade.notifications.defined THEN upgrade.notifications.types ELSE <<>>

\* a merge that keeps the proposed methods and types only
mergeUpgradeReplace(settled, upgrade) ==
  [jsonrpc |-> [methods |-> methodsOr(upgrade)],
   notifications |-> [types |-> typesOr(upgrade)],
   controller |-> settled.controller]

mergeUpgrade(settled, upgrade) ==
  [jsonrpc |-> [methods |-> settled.jsonrpc.methods \o methodsOr(upgrade)],
   notifications |-> [types |-> settled.notifications.types \o typesOr(upgrade)],
   controller |-> settled.controller]

MergeUpgrade ==
  /\ ~merging.done
  /\ merging' = [merging EXCEPT !.done = TRUE,
                                !.merged = mergeUpgrade(merging.settled, merging.upgrade)]
  /\ UNCHANGED <<storeVars, relayed, listeners, requests, nextId, pending, wireVars,
                 keychain, decoding, payloads, wire, publishing, inbound, published,
                 client, results, stores, attempts>>

InitMerge ==
  /\ StoreInit
  /\ RelayIdle
  /\ client = [controller |-> FALSE, metadata |-> "app"]
  /\ results = <<>>
  /\ stores = NoStores
  /\ attempts = <<>>
  /\ merging \in [done : {FALSE}, settled : SettledPermissions,
                  upgrade : UpgradePermissions, merged : {NoPermissions}]

NextMerge == MergeUpgrade

SpecMerge == InitMerge /\ [][NextMerge]_vars

\* the list names exactly the elements of the set, each once
IsSet(list, set) == Range(list) = set /\ Len(list) = Cardinality(set)

\* C20: mergeUpgrade returns methods that are the set union of the settled
\* and the proposed methods, types that are the set union of the settled and
\* the proposed types, each element once, and the settled controller.
MergeUpgradeIsUnion ==
  merging.done =>
    /\ IsSet(merging.merged.jsonrpc.methods,
             Range(merging.settled.jsonrpc.methods)
               \cup Range(methodsOr(merging.upgrade)))
    /\ IsSet(merging.merged.notifications.types,
             Range(merging.settled.notifications.types)
               \cup Range(typesOr(merging.upgrade)))
    /\ merging.merged.controller = merging.settled.controller

\* ---------------------------------------------------------------------
\* Pairing upgrades: mergeUpgrade, stored with Subscription.update

MaxUpgrades == 2

\* a settled pairing before any upgrade: merging.settled keeps the
\* permissions it started with, merging.merged the ones it holds now
InitUpgrades ==
  /\ StoreInit
  /\ RelayIdle
  /\ client = [controller |-> FALSE, metadata |-> "app"]
  /\ results = <<>>
  /\ stores = NoStores
  /\ attempts = <<>>
  /\ merging \in {[done |-> FALSE, settled |-> p, upgrade |-> NoUpgrade, merged |-> p] :
                    p \in SettledPermissions}

\* one successful upgrade: the permissions mergeUpgrade returns are stored
\* with update(topic, {permissions}), a shallow merge into the sequence
PairingUpgrade ==
  /\ Len(results) < MaxUpgrades
  /\ \E upgrade \in UpgradePermissions :
       LET sequence == [permissions |-> merging.merged, topic |-> "t1"]
           update == [permissions |-> mergeUpgrade(sequence.permissions, upgrade)]
       IN merging' = [merging EXCEPT !.done = TRUE, !.upgrade = upgrade,
                                     !.merged = merge(sequence, update).permissions]
  /\ results' = Append(results, [call |-> "upgrade"])
  /\ UNCHANGED <<storeVars, relayed, listeners, requests, nextId, pending, wireVars,
                 keychain, decoding, payloads, wire, publishing, inbound, published,
                 client, stores, attempts>>

NextUpgrades == PairingUpgrade

SpecUpgrades == InitUpgrades /\ [][NextUpgrades]_vars

\* C21: after any number of upgrades every method and every notification
\* type the pairing started with is still in its permissions, and the
\* controller is the one it started with.
UpgradesKeepPermissions ==
  /\ Range(merging.settled.jsonrpc.methods) \subseteq Range(merging.merged.jsonrpc.methods)
  /\ Range(merging.settled.notifications.types)
       \subseteq Range(merging.merged.notifications.types)
  /\ merging.merged.controller = merging.settled.controller

\* two upgrades were stored, the second proposing neither what was settled
\* nor what the first one added
UpgradesKeepPermissionsWitness ==
  /\ Len(results) = 2
  /\ merging.settled.jsonrpc.methods = <<"m1">>
  /\ merging.settled.notifications.types = <<"n1">>
  /\ merging.upgrade.jsonrpc.defined
  /\ merging.upgrade.jsonrpc.methods = <<>>
  /\ ~merging.upgrade.notifications.defined
  /\ Range(merging.merged.jsonrpc.methods) = {"m1", "m2"}

\* ---------------------------------------------------------------------
\* Pairing.mergeUpdate

\* app metadata of a peer, Undefined when the state carries none
Metadatas == {"appA", "appB", Undefined}

\* the state of a settled pairing and the state an update proposes; the
\* second field is not metadata
States == [metadata : Metadatas, accounts : {"x", "y", Undefined}]

\* a merge that carries every field of the update over
mergeUpdateAll(settled, update) == merge(settled.state, update.state)

\* { metadata: update.state.metadata || settled.state.metadata }
mergeUpdate(settled, update) ==
  [metadata |-> IF update.state.metadata # Undefined
                THEN update.state.metadata ELSE settled.state.metadata]

InitMergeUpdate ==
  /\ StoreInit
  /\ RelayIdle
  /\ client = [controller |-> FALSE, metadata |-> "app"]
  /\ results = <<>>
  /\ stores = NoStores
  /\ attempts = <<>>
  /\ merging \in [done : {FALSE}, settled : [state : States],
                  upgrade : [state : States], merged : {[metadata |-> Undefined]}]

\* mergeUpdate: settled.get(topic) reads the entry, the state is computed
MergeUpdate ==
  /\ ~merging.done
  /\ merging' = [merging EXCEPT !.done = TRUE,
                                !.merged = mergeUpdate(merging.settled, merging.upgrade)]
  /\ UNCHANGED <<storeVars, relayed, listeners, requests, nextId, pending, wireVars,
                 keychain, decoding, payloads, wire, publishing, inbound, published,
                 client, results, stores, attempts>>

NextMergeUpdate == MergeUpdate

SpecMergeUpdate == InitMergeUpdate /\ [][NextMergeUpdate]_vars

\* C22: the state mergeUpdate returns has the one field metadata, which is
\* the update's metadata when the update carries one and the settled
\* pairing's otherwise; the table and the storage are as they were.
MergeUpdateOnlyMetadata ==
  [][MergeUpdate =>
       /\ DOMAIN merging'.merged = {"metadata"}
       /\ merging'.merged.metadata =
            IF merging.upgrade.state.metadata # Undefined
            THEN merging.upgrade.state.metadata
            ELSE merging.settled.state.metadata
       /\ subscriptions' = subscriptions
       /\ storage' = storage /\ writes' = writes
    ]_vars

\* an update without metadata but with another field was merged into a
\* pairing that has metadata
MergeUpdateOnlyMetadataWitness ==
  /\ merging.done
  /\ DOMAIN merging.upgrade = {"state"}
  /\ merging.upgrade.state.metadata = Undefined
  /\ merging.upgrade.state.accounts = "x"
  /\ merging.settled.state.accounts = "y"
  /\ merging.merged = [metadata |-> "appA"]

\* the step of call i is the lookup of getSubscription
LooksUp(i) ==
  /\ GetSubscriptionRun(i)
  /\ tasks[i].pc = "lookup" \/ isEnabled(cached)

\* C23: get, update and delete on a topic that is not in the table end with
\* NO_MATCHING_TOPIC at the lookup, emit no event, start no storage write
\* and leave the table, the timers and the timer map as they were.
AbsentTopicFails ==
  [][\A i \in DOMAIN tasks :
       (LooksUp(i) /\ ~Present(tasks[i].topic)) =>
         /\ thrown' = <<"NO_MATCHING_TOPIC">>
         /\ tasks' = Remove(tasks, i)
         /\ emitted' = <<>>
         /\ writes' = writes
         /\ subscriptions' = subscriptions
         /\ timers' = timers
         /\ timeout' = timeout
    ]_vars

\* a call on an absent topic has failed in a store that holds another entry
\* with its timer armed
AbsentTopicFailsWitness ==
  /\ thrown = <<"NO_MATCHING_TOPIC">>
  /\ ~Present("t1")
  /\ Present("t2")
  /\ timers # EmptyBag
  /\ phase = "running"

\* C24: the step that applies update(topic, partial) changes the sequence of
\* the topic's entry to the shallow merge of its sequence with partial and
\* nothing else: no entry is added or removed, expiry and relay of the entry
\* and every other entry stay as they are, no timer changes, and one updated
\* event carrying partial is emitted.
UpdateChangesOnlySequence ==
  [][\A i \in DOMAIN tasks :
       UpdateApply(i) =>
         /\ Len(subscriptions') = Len(subscriptions)
         /\ \A k \in DOMAIN subscriptions :
              subscriptions'[k] =
                IF subscriptions[k].topic = tasks[i].topic
                THEN [subscriptions[k] EXCEPT !.sequence = merge(@, tasks[i].arg)]
                ELSE subscriptions[k]
         /\ Len(emitted') = 1
         /\ emitted'[1].type = "updated"
         /\ emitted'[1].update = tasks[i].arg
         /\ timers' = timers
         /\ timeout' = timeout
    ]_vars

\* one step of a call in progress
TaskStep ==
  \E i \in DOMAIN tasks :
    SetRun(i) \/ SetEmit(i) \/ GetSubscriptionRun(i) \/ UpdateApply(i) \/ DeleteApply(i)

\* restore goes on after its awaits and the continuations of the calls in
\* progress are run: the runtime leaves no resolved promise waiting
SpecFair ==
  Init /\ [][Next]_vars /\ WF_vars(RestoreEnable) /\ WF_vars(TaskStep)

\* a call made while restore held the persisted entries is in progress
Waiting == \E i \in DOMAIN tasks : tasks[i].gated

\* C25: every call that was made while the store was disabled by restore
\* comes to its end, and restore has then emptied `cached`.
WaitersResume == Waiting ~> (~Waiting /\ cached = <<>>)

\* a call that waited for restore has ended with NO_MATCHING_TOPIC
WaitersResumeWitness ==
  /\ thrown = <<"NO_MATCHING_TOPIC">>
  /\ phase = "restored"
  /\ tasks = <<>>
  /\ cached = <<>>
  /\ calls > 0
  /\ preStop # <<>>

\* C26: a beat leaves every entry that expires within one beat interval with
\* an armed timer due at its expiry, has started delete(topic, EXPIRED) for
\* every entry whose expiry is reached (unless the entry's timer is armed
\* and about to do so), and arms no timer for an entry that expires later
\* than one beat interval.
BeatArmsTimers ==
  [][Beat =>
       \A k \in DOMAIN subscriptions :
         LET e == subscriptions[k]
             ttl == e.expiry - now
         IN /\ (ttl > 0 /\ ttl <= CLIENT_BEAT_INTERVAL) =>
                 CopiesIn([topic |-> e.topic, due |-> e.expiry], timers') = 1
            /\ ttl <= 0 =>
                 \/ CopiesIn([topic |-> e.topic, due |-> e.expiry], timers') = 1
                 \/ \E j \in DOMAIN tasks' :
                      /\ tasks'[j].op = "delete"
                      /\ tasks'[j].topic = e.topic
                      /\ tasks'[j].reason = EXPIRED
            /\ ttl > CLIENT_BEAT_INTERVAL =>
                 \A h \in BagToSet(timers') :
                   h.topic = e.topic => CopiesIn(h, timers') = CopiesIn(h, timers)
    ]_vars

\* C27: once restore has enabled the store and the calls resumed by it have
\* ended, no entry whose expiry had passed when it was loaded is in the
\* table, and once the storage writes have completed none is in the
\* persisted array.
ExpiredOnLoadIsDeleted ==
  (phase = "restored" /\ tasks = <<>>) =>
    /\ \A k \in DOMAIN subscriptions : subscriptions[k].expiry > now
    /\ writes = <<>> =>
         \A k \in DOMAIN PersistedView : PersistedView[k].expiry > now

\* C28: a pairing request with the session-propose method whose proposer
\* has the client's own controller flag is answered by one session.respond
\* with approved = false and reason UNAUTHORIZED_MATCHING_CONTROLLER and no
\* session proposal event; with the other flag it is emitted once as session
\* proposal event carrying the proposal, and nothing is responded; a request
\* of another method causes neither.
ProposalOfMatchingControllerRejected ==
  \A n \in DOMAIN results :
    LET r == results[n] IN
    r.call = "request" =>
      IF r.method # SESSION_JSONRPC_propose
      THEN r.invoked = <<>> /\ r.events = <<>>
      ELSE IF r.proposal.proposer.controller = client.controller
      THEN /\ r.events = <<>>
           /\ Len(r.invoked) = 1
           /\ r.invoked[1].on = "session" /\ r.invoked[1].method = "respond"
           /\ r.invoked[1].params.approved = FALSE
           /\ r.invoked[1].params.reason = "UNAUTHORIZED_MATCHING_CONTROLLER"
      ELSE /\ r.invoked = <<>>
           /\ r.events = <<[name |-> "session_proposal", data |-> r.proposal]>>

\* one proposal was rejected for its controller flag and one was emitted
ProposalOfMatchingControllerRejectedWitness ==
  \E n, m \in DOMAIN results :
    /\ results[n].call = "request" /\ results[m].call = "request"
    /\ results[n].method = SESSION_JSONRPC_propose
    /\ results[m].method = SESSION_JSONRPC_propose
    /\ results[n].invoked # <<>>
    /\ results[m].events # <<>>

\* A run that starts with what an earlier run persisted: getItem (line 204)
\* answers with one entry, written by a set of SetInputs made at time 1.
StoredInputs ==
  { <<[topic |-> in.topic, sequence |-> in.sequence, relay |-> in.relay,
       expiry |-> 1 + in.offset]>> : in \in {x \in SetInputs : x.offset # 0} }

InitStored ==
  /\ now = 1
  /\ phase = "constructed"
  /\ subscriptions = <<>>
  /\ timeout = EmptyMap
  /\ timers = EmptyBag
  /\ cached = <<>>
  /\ tasks = <<>>
  /\ \E v \in StoredInputs :
       /\ storage = [present |-> TRUE, value |-> v]
       /\ preStop = v
  /\ writes = <<>>
  /\ nextBeat = 0
  /\ calls = 0
  /\ turn = "api"
  /\ emitted = <<>>
  /\ thrown = <<>>
  /\ loadedFresh = TRUE
  /\ RelayIdle
  /\ ApiIdle

SpecStored == InitStored /\ [][Next]_vars

\* C29: delete(topic, EXPIRED) removes an entry only when the time has
\* reached the expiry of the entry it removes.
ExpiredOnlyAtOwnExpiry ==
  [][\A i \in DOMAIN tasks :
       (DeleteApply(i) /\ tasks[i].reason = EXPIRED /\ Present(tasks[i].topic)) =>
         now >= mapGet(subscriptions, tasks[i].topic).expiry
    ]_vars

\* The client of a run that starts with persisted entries: Client.initialize
\* awaits the store's init (restore and its enable) before the Relayer's
\* init and setBeatInterval.
NextRestored ==
  \/ RestoreStart
  \/ RestoreEnable
  \/ SetBeatInterval
  \/ SetCall
  \/ UpdateCall
  \/ DeleteCall
  \/ \E i \in DOMAIN tasks : SetRun(i)
  \/ \E i \in DOMAIN tasks : SetEmitRelayed(i)
  \/ \E i \in DOMAIN tasks : GetSubscriptionRun(i)
  \/ \E i \in DOMAIN tasks : UpdateApply(i)
  \/ \E i \in DOMAIN tasks : DeleteApplyRelayed(i)
  \/ TimerFire
  \/ Beat
  \/ Tick
  \/ StorageWrite
  \/ SubscribeReplied
  \/ UnsubscribeReplied

SpecRestored == InitStored /\ [][NextRestored]_vars

\* C30: when Client.initialize finishes, the Relayer has issued a subscribe
\* request for every topic the store holds, the restored ones included: the
\* request awaits its reply or the Relayer already holds an id for the topic.
RestoredTopicsSubscribed ==
  [][SetBeatInterval =>
       \A t \in Topics :
         Present(t)' =>
           \/ idsOf(t)' # <<>>
           \/ \E r \in requests' : r.method = "subscribe" /\ r.topic = t
    ]_vars

\* every field of the sequence passed is in the sequence stored for the topic
Reflects(subs, topic, sequence) ==
  /\ has(subs, topic)
  /\ \A f \in DOMAIN sequence : mapGet(subs, topic).sequence[f] = sequence[f]

Emits(events, type, topic) ==
  \E k \in DOMAIN events : events[k].type = type /\ events[k].topic = topic

\* C31: at the step where the promise of set(topic, sequence, opts) resolves,
\* the topic is present, its stored sequence has every field of the sequence
\* passed, and created (insert) or updated (topic already present) has been
\* emitted.
SetResolvesAfterStore ==
  [][\A i \in DOMAIN tasks :
       /\ (SetRun(i) /\ has(subscriptions, tasks[i].topic)) =>
            /\ Reflects(subscriptions', tasks[i].topic, tasks[i].arg)
            /\ Emits(emitted', "updated", tasks[i].topic)
       /\ SetEmit(i) =>
            /\ Reflects(subscriptions', tasks[i].topic, tasks[i].arg)
            /\ Emits(emitted', "created", tasks[i].topic)
    ]_vars


\* ------------------------------------------- several stores on one event bus
MaxOps == 2           \* calls made on the stores while the client initializes

\* init with every store's init started at once
initConcurrent(s) == TRUE

\* `await this.pending.init(); await this.settled.init()` and
\* `await this.pairing.init(); await this.session.init()`: the init of a store
\* starts when the init of every store before it has returned
initAwaited(s) == \A r \in 1..(s - 1) : stores.phase[r] = "restored"

\* Subscription.init -> restore up to `await Promise.all(...)`: nothing
\* persisted returns at once, else `this.cached = persisted`
SubscriptionInit(s) ==
  /\ stores.phase[s] = "constructed"
  /\ initAwaited(s)
  /\ stores' = IF stores.persisted[s] = 0
                 THEN [stores EXCEPT !.phase[s] = "restored"]
                 ELSE [stores EXCEPT !.phase[s] = "restoring",
                                     !.cached[s] = stores.persisted[s]]

\* the listeners that isEnabled registered with events.once(enabled) are
\* on the bus all stores share: an emit runs every one of them
onEnabled(ops, buffers, s) ==
  [k \in DOMAIN ops |->
     IF ops[k].state = "waiting"
       THEN [ops[k] EXCEPT !.state = "released", !.by = s,
                           !.early = buffers[ops[k].store] # 0]
       ELSE ops[k]]

\* restore after Promise.all: enable empties `cached` and emits enabled
SubscriptionEnable(s) ==
  /\ stores.phase[s] = "restoring"
  /\ LET buffers == [stores.cached EXCEPT ![s] = 0] IN
     stores' = [stores EXCEPT !.phase[s] = "restored",
                              !.cached = buffers,
                              !.ops = onEnabled(@, buffers, s),
                              !.enabled = Append(@, s)]

\* a public operation of store s up to its `await this.isEnabled()`
SubscriptionCall(s) ==
  /\ Len(stores.ops) < MaxOps
  /\ stores' = [stores EXCEPT !.ops =
       Append(@, IF stores.cached[s] = 0
                   THEN [store |-> s, waited |-> FALSE, state |-> "released",
                         by |-> 0, early |-> FALSE]
                   ELSE [store |-> s, waited |-> TRUE, state |-> "waiting",
                         by |-> 0, early |-> FALSE])]

StoresStep(A) ==
  /\ A
  /\ UNCHANGED <<storeVars, relayed, listeners, requests, nextId, pending, wireVars,
                 keychain, decoding, payloads, wire, publishing, inbound, published,
                 client, results, merging, attempts>>

\* what each store finds in storage: nothing or one entry
InitStores ==
  /\ StoreInit
  /\ RelayIdle
  /\ client = [controller |-> FALSE, metadata |-> "app"]
  /\ results = <<>>
  /\ merging = NotMerging
  /\ stores \in {[NoStores EXCEPT !.persisted = p] : p \in [DOMAIN StoreNames -> {0, 1}]}
  /\ attempts = <<>>

NextStores ==
  \/ \E s \in DOMAIN StoreNames : StoresStep(SubscriptionInit(s))
  \/ \E s \in DOMAIN StoreNames : StoresStep(SubscriptionEnable(s))
  \/ \E s \in DOMAIN StoreNames : StoresStep(SubscriptionCall(s))

SpecStores == InitStores /\ [][NextStores]_vars

\* C32: an operation that waited on a disabled store was released by the
\* enabled event of that same store, and no operation was let through while
\* the cached buffer of its own store was still non-empty.
OwnStoreReleases ==
  \A k \in DOMAIN stores.ops :
    LET op == stores.ops[k] IN
    /\ op.state = "waiting" => stores.cached[op.store] # 0
    /\ (op.waited /\ op.state = "released") => (op.by = op.store /\ ~op.early)

\* an operation waited on one store and was released, and another store
\* emitted enabled as well
OwnStoreReleasesWitness ==
  \E k \in DOMAIN stores.ops :
    /\ stores.ops[k].waited
    /\ stores.ops[k].state = "released"
    /\ \E e \in DOMAIN stores.enabled : stores.enabled[e] # stores.ops[k].store

\* A store that already holds an entry when init is called: set was called
\* on it before init, and storage holds a persisted array.
InitOverride ==
  /\ now = 1
  /\ phase = "constructed"
  /\ \E in \in SetInputs :
       LET st == subscribeAndSet(
                   [subscriptions |-> <<>>, timeout |-> EmptyMap,
                    timers |-> EmptyBag, tasks |-> <<>>, emitted |-> <<>>,
                    thrown |-> <<>>, writes |-> <<>>, cached |-> <<>>],
                   in.topic, in.sequence,
                   [relay |-> in.relay,
                    expiry |-> IF in.offset = 0 THEN 0 ELSE now + in.offset])
       IN /\ subscriptions = st.subscriptions
          /\ timeout = st.timeout
          /\ timers = st.timers
  /\ cached = <<>>
  /\ tasks = <<>>
  /\ \E v \in StoredInputs :
       /\ storage = [present |-> TRUE, value |-> v]
       /\ preStop = v
  /\ writes = <<>>
  /\ nextBeat = 0
  /\ calls = 0
  /\ turn = "api"
  /\ emitted = <<>>
  /\ thrown = <<>>
  /\ loadedFresh = TRUE
  /\ RelayIdle
  /\ ApiIdle

SpecOverride == InitOverride /\ [][Next]_vars

\* C33: restore on a store that holds an entry, with a non-empty persisted
\* array in storage, throws nothing to the caller of init, leaves entries and
\* timers as they were, loads nothing and leaves the store enabled.
RestoreKeepsHeldEntries ==
  [][(RestoreStart /\ Len(subscriptions) # 0
        /\ storage.present /\ Len(storage.value) # 0) =>
       /\ thrown' = <<>>
       /\ subscriptions' = subscriptions
       /\ timeout' = timeout
       /\ timers' = timers
       /\ cached' = <<>>
       /\ phase' = "restored"
       /\ \A i \in DOMAIN tasks' : ~tasks'[i].blocked
    ]_vars

\* restore has run on a store that held an entry: no call was made and no
\* time passed, the entries are there and were not loaded from storage
RestoreKeepsHeldEntriesWitness ==
  /\ phase = "restored"
  /\ now = 1
  /\ calls = 0
  /\ Len(subscriptions) # 0
  /\ storage.present /\ Len(storage.value) # 0
  /\ ~loadedFresh
  /\ cached = <<>>

\* ------------------------------------------------ failing Relayer requests
MaxAttempts == 3      \* calls of publish, subscribe and unsubscribe in one run

RELAYER_DEFAULT_PROTOCOL == "waku"

\* the protocols RELAY_JSONRPC of relay-provider has an entry for
RELAY_JSONRPC == {"waku"}

\* opts?.relay.protocol: "" stands for a call without opts
ProtocolOpts == {"", "waku", "carrier"}

\* getRelayProtocolJsonRpc: the protocol's method names, or it throws
getRelayProtocolJsonRpc(protocol) ==
  IF protocol \in RELAY_JSONRPC
    THEN [thrown |-> FALSE, subscribe |-> "subscribe",
          unsubscribe |-> "unsubscribe", publish |-> "publish"]
    ELSE [thrown |-> TRUE, subscribe |-> Undefined,
          unsubscribe |-> Undefined, publish |-> Undefined]

\* opts?.relay.protocol || RELAYER_DEFAULT_PROTOCOL
protocolOf(opt) == IF opt = "" THEN RELAYER_DEFAULT_PROTOCOL ELSE opt

Attempt(method, topic, state, error, left) ==
  [method |-> method, topic |-> topic, state |-> state, error |-> error,
   left |-> left, changed |-> FALSE]

\* the call threw at getRelayProtocolJsonRpc: caught, logged and rethrown
NotSupported(method, topic) ==
  Attempt(method, topic, "failed", "PROTOCOL_NOT_SUPPORTED", 0)

Sent(method, topic, id) ==
  [method |-> method, topic |-> topic, id |-> id, of |-> Len(attempts) + 1]

RECURSIVE unsubscribeIds(_, _)
\* subscriptions.map(id => this.unsubscribeId(topic, id, opts))
unsubscribeIds(topic, ids) ==
  IF ids = <<>> THEN {}
  ELSE {Sent("unsubscribe", topic, Head(ids))} \cup unsubscribeIds(topic, Tail(ids))

FailureStep(A) ==
  /\ A
  /\ UNCHANGED <<storeVars, pending, wireVars, keychain, decoding, payloads, wire,
                 publishing, inbound, published, client, results, merging, stores>>

\* Relayer.subscribe up to its `await this.provider.request(request)`
SubscribeAttempt ==
  /\ Len(attempts) < MaxAttempts
  /\ nextId <= MaxIds
  /\ \E topic \in Topics, opt \in ProtocolOpts :
       IF getRelayProtocolJsonRpc(protocolOf(opt)).thrown
         THEN /\ attempts' = Append(attempts, NotSupported("subscribe", topic))
              /\ UNCHANGED <<requests, nextId>>
         ELSE /\ attempts' = Append(attempts,
                               Attempt("subscribe", topic, "awaiting", Undefined, 1))
              /\ requests' = requests \cup {Sent("subscribe", topic, nextId)}
              /\ nextId' = nextId + 1
  /\ UNCHANGED <<relayed, listeners>>

\* Relayer.unsubscribe(topic, opts) without an id up to the awaits of its
\* unsubscribeId calls; a topic without ids returns at once
UnsubscribeAttempt ==
  /\ Len(attempts) < MaxAttempts
  /\ \E topic \in Topics, opt \in ProtocolOpts :
       IF idsOf(topic) = <<>>
         THEN /\ attempts' = Append(attempts,
                               Attempt("unsubscribe", topic, "returned", Undefined, 0))
              /\ UNCHANGED requests
       ELSE IF getRelayProtocolJsonRpc(protocolOf(opt)).thrown
         THEN /\ attempts' = Append(attempts, NotSupported("unsubscribe", topic))
              /\ UNCHANGED requests
       ELSE /\ attempts' = Append(attempts,
                             Attempt("unsubscribe", topic, "awaiting", Undefined,
                                     Len(idsOf(topic))))
            /\ requests' = requests \cup unsubscribeIds(topic, idsOf(topic))
  /\ UNCHANGED <<relayed, listeners, nextId>>

\* Relayer.publish up to its `await this.provider.request(request)`
PublishAttempt ==
  /\ Len(attempts) < MaxAttempts
  /\ \E topic \in Topics, opt \in ProtocolOpts :
       IF getRelayProtocolJsonRpc(protocolOf(opt)).thrown
         THEN /\ attempts' = Append(attempts, NotSupported("publish", topic))
              /\ UNCHANGED requests
         ELSE /\ attempts' = Append(attempts,
                               Attempt("publish", topic, "awaiting", Undefined, 1))
              /\ requests' = requests \cup {Sent("publish", topic, 0)}
  /\ UNCHANGED <<relayed, listeners, nextId>>

\* what the call does after its provider.request resolved
resolved(r) ==
  IF r.method = "subscribe"
    THEN [relayed |-> (r.topic :> Append(idsOf(r.topic), r.id)) @@ relayed,
          listeners |-> listeners \cup {r.id}]
  ELSE IF r.method = "unsubscribe"
    THEN [relayed |-> IF r.topic \in DOMAIN relayed
                        THEN [relayed EXCEPT ![r.topic] = filter(@, r.id)]
                        ELSE relayed,
          listeners |-> listeners \ {r.id}]
  ELSE [relayed |-> relayed, listeners |-> listeners]

\* the transport answers a request: provider.request resolves, or it rejects
\* and the catch of the call rethrows; Promise.all of unsubscribe rejects
\* with the first rejection while its other unsubscribeId calls go on
TransportReply ==
  \E r \in requests, ok \in BOOLEAN :
    LET after == IF ok THEN resolved(r)
                 ELSE [relayed |-> relayed, listeners |-> listeners]
        a == attempts[r.of]
        state == IF ~ok THEN "failed"
                 ELSE IF a.state = "awaiting" /\ a.left = 1 THEN "returned"
                 ELSE a.state
    IN /\ requests' = requests \ {r}
       /\ relayed' = after.relayed
       /\ listeners' = after.listeners
       /\ attempts' = [attempts EXCEPT ![r.of] =
            [a EXCEPT !.state = state,
                      !.error = IF ok THEN a.error ELSE "REQUEST_REJECTED",
                      !.left = a.left - 1,
                      !.changed = a.changed \/ after.relayed # relayed
                                            \/ after.listeners # listeners]]
       /\ UNCHANGED nextId

NextFailures ==
  \/ FailureStep(SubscribeAttempt)
  \/ FailureStep(UnsubscribeAttempt)
  \/ FailureStep(PublishAttempt)
  \/ FailureStep(TransportReply)

SpecFailures == Init /\ [][NextFailures]_vars

\* C34: a call of publish, subscribe or unsubscribe that failed, at
\* getRelayProtocolJsonRpc or because the transport rejected a request, has
\* its error rethrown and has changed neither the Relayer's subscription map
\* nor its listeners.
FailedCallChangesNothing ==
  \A k \in DOMAIN attempts :
    attempts[k].state = "failed" =>
      /\ attempts[k].error # Undefined
      /\ ~attempts[k].changed

====
